---- MODULE Spec2Model ----
(***************************************************************************)
(* Connection / presence / delivery core of the chat backend.              *)
(*                                                                         *)
(* One asyncio task runs websocket_endpoint per connection (a "session").  *)
(* Tasks interleave only at the awaits that really suspend: accept(),      *)
(* receive_text() and a send_json() that was issued.  Everything between   *)
(* two such awaits (registry update, Redis call, database commit) is one   *)
(* atomic step, and is modelled as one action.                             *)
(*                                                                         *)
(* Spec         sessions, direct messages, typing, read receipts, history  *)
(* SpecGroup    sessions, the groups table and rosters, group messages     *)
(* SpecMixed    message frames naming a receiver, a group, both or neither *)
(* SpecStored   a server started on a database that holds a message        *)
(* SpecHistory  direct messages and history fetches                        *)
(* SpecPersist  message frames whose insert may fail                       *)
(* SpecStall    direct messages to peers that may stop reading (fair)      *)
(* SpecRegister POST /register and its passcode tasks                      *)
(* SpecOtp      accounts that request, use and lose one-time passcodes     *)
(***************************************************************************)
EXTENDS Integers, Sequences, FiniteSets, TLC

\* ------------------------------------------------------------------ bounds
NumUsers    == 2
NumSessions == 2
NumGroups   == 1
MaxFrames   == 2
MaxAuthFailures  == 1
MaxRedisFailures == 1
MaxDbFailures    == 1
MaxAccounts      == 2

\* ------------------------------------------------------- program constants
None                   == 0       \* Python None (Optional fields, missing key)
POLICY_VIOLATION       == 1008    \* websocket.close(code=1008)

Users    == 1..NumUsers           \* rows of the users table
Sessions == 1..NumSessions        \* WebSocket objects, one per endpoint call
Groups   == 1..NumGroups
UnknownUser == NumUsers + 1       \* an id no users row has

VARIABLES
    active_connections,   \* manager.active_connections : user_id -> WebSocket
    online_users,         \* the Redis set "online_users"
    ws_state,             \* per session: Connecting / Accepting / Open / Closed
    ws_token,             \* per session: the token of the URL path
    ws_user,              \* per session: the local `user` (None before auth)
    close_code,           \* per session: code passed to websocket.close, or None
    pc,                   \* per session: await the task is suspended at
    cur,                  \* per session: locals live across that await
    messages,             \* the messages table, message id = index
    groups,               \* ids of the rows of the groups table
    group_members,        \* rows of the group_members table
    pushed,               \* every frame handed to send_json, in order
    handled,              \* per message: what its handler saw and how it ended
    received,             \* per session: inbound frames received
    malformed,            \* per session: malformed frames received
    unmatched,            \* per session: frames no branch had a tag for
    auth_failures,        \* connection attempts get_current_user refused
    redis_failures,       \* Redis calls that raised
    db_failures,          \* database commits that raised
    http_status,          \* status code of the latest HTTP response
    stalled,              \* connections whose peer has stopped reading
    users_table,          \* rows of the users table, user id = index
    background_tasks,     \* tasks added to BackgroundTasks, not yet run
    otps,                 \* the Redis keys "otp:<id>" : user id -> passcode
    otp_status,           \* per user id: what the OTP task returned
    http_body             \* id of the user the latest response returned

\* the state of the registration flow
auth_vars == <<users_table, background_tasks, otps, otp_status, http_body>>

\* the state of the chat and group routes
chat_vars == <<active_connections, online_users, ws_state, ws_token, ws_user,
               close_code, pc, cur, messages, groups, group_members, pushed,
               handled, received, malformed, unmatched, auth_failures,
               redis_failures, db_failures, stalled>>

vars == <<active_connections, online_users, ws_state, ws_token, ws_user,
          close_code, pc, cur, messages, groups, group_members, pushed,
          handled, received, malformed, unmatched, auth_failures,
          redis_failures, db_failures, http_status, stalled, auth_vars>>

\* ------------------------------------------------------------ dict helpers
\* a dict assignment that keeps the value of a key already present
PutIfAbsent(d, k, v) ==
    [x \in (DOMAIN d) \cup {k} |-> IF x \in DOMAIN d THEN d[x] ELSE v]

Put(d, k, v) == [x \in (DOMAIN d) \cup {k} |-> IF x = k THEN v ELSE d[x]]
Del(d, k)    == [x \in (DOMAIN d) \ {k} |-> d[x]]

\* ------------------------------------------------------------ redis_client
\* Every presence call opens the Redis client first and re-raises on failure.
RedisOutcomes == {"ok", "error"}

Redis(outcome) ==
    IF outcome = "ok"
      THEN UNCHANGED redis_failures
      ELSE /\ redis_failures < MaxRedisFailures
           /\ redis_failures' = redis_failures + 1

set_user_online(online, user_id)  == online \cup {user_id}
set_user_offline(online, user_id) == online \ {user_id}
is_user_online(online, user_id)   == user_id \in online

\* ---------------------------------------------------------------- security
\* A token is what jwt.decode makes of it: whether signature and expiry
\* verify, and the "sub" of its payload (None when the payload has none).
Tokens == [valid : {TRUE}, sub : Users \cup {None, UnknownUser}]
              \cup [valid : {FALSE}, sub : Users]

NoToken == [valid |-> FALSE, sub |-> None]

\* get_current_user without the signature and expiry check of jwt.decode
get_current_user_unverified(token) ==
    IF token.sub = None THEN None
    ELSE IF token.sub \notin Users THEN None
    ELSE token.sub

\* get_current_user: the user the token names, None when it raises.
get_current_user(token) ==
    IF ~token.valid THEN None
    ELSE IF token.sub = None THEN None
    ELSE IF token.sub \notin Users THEN None
    ELSE token.sub

\* -------------------------------------------------------------- data model
SENT      == "sent"
DELIVERED == "delivered"
READ      == "read"

Contents == {"hi"}

NoCur == [msg |-> None, resp |-> None, todo |-> <<>>]

\* Message(...) as the endpoint builds it, status=MessageStatus.SENT
NewMessage(id, sender, receiver, group, content) ==
    [id |-> id, sender_id |-> sender, receiver_id |-> receiver,
     group_id |-> group, content |-> content, status |-> SENT]

\* the `response` dict built from db_message right after the insert
Response(m) ==
    [type |-> "message",
     data |-> [id |-> m.id, sender_id |-> m.sender_id,
               receiver_id |-> m.receiver_id, group_id |-> m.group_id,
               content |-> m.content, status |-> m.status]]

Init ==
    /\ active_connections = << >>
    /\ online_users = {}
    /\ ws_state = [s \in Sessions |-> "Connecting"]
    /\ ws_token = [s \in Sessions |-> NoToken]
    /\ ws_user = [s \in Sessions |-> None]
    /\ close_code = [s \in Sessions |-> None]
    /\ pc = [s \in Sessions |-> "recv"]
    /\ cur = [s \in Sessions |-> NoCur]
    /\ messages = << >>
    /\ groups = {}
    /\ group_members = {}
    /\ pushed = << >>
    /\ handled = << >>
    /\ received = [s \in Sessions |-> 0]
    /\ malformed = [s \in Sessions |-> 0]
    /\ unmatched = [s \in Sessions |-> 0]
    /\ auth_failures = 0
    /\ redis_failures = 0
    /\ users_table = << >>
    /\ background_tasks = {}
    /\ otps = << >>
    /\ otp_status = [u \in 1..MaxAccounts |-> "none"]
    /\ http_body = None
    /\ stalled = {}
    /\ http_status = None
    /\ db_failures = 0

\* ------------------------------------------------------- session bookkeeping
\* `except Exception: await websocket.close(code=1008)`
Closed1008(s) ==
    /\ ws_state' = [ws_state EXCEPT ![s] = "Closed"]
    /\ close_code' = [close_code EXCEPT ![s] = POLICY_VIOLATION]

\* The handler of the current frame ends: normally (back at receive_text) or
\* by an exception that is not WebSocketDisconnect (outer except, close 1008).
Finish(s, msgs, psh, hnd, outcome) ==
    /\ messages' = msgs
    /\ pushed' = psh
    /\ handled' = hnd
    /\ pc' = [pc EXCEPT ![s] = "recv"]
    /\ cur' = [cur EXCEPT ![s] = NoCur]
    /\ IF outcome = "raised"
         THEN Closed1008(s)
         ELSE UNCHANGED <<ws_state, close_code>>

\* The handler suspends in a send_json that was issued.
Yield(s, msgs, psh, hnd, at, locals) ==
    /\ messages' = msgs
    /\ pushed' = psh
    /\ handled' = hnd
    /\ pc' = [pc EXCEPT ![s] = at]
    /\ cur' = [cur EXCEPT ![s] = locals]
    /\ UNCHANGED <<ws_state, close_code>>

\* A WebSocket the server has closed refuses send_json (RuntimeError).
Live(c) == ws_state[c] = "Open"

MarkDone(hnd, m, how) == [hnd EXCEPT ![m].done = how]

\* ------------------------------------------------------- ConnectionManager
\* websocket_endpoint up to `await websocket.accept()`
Authenticate(s, token) ==
    /\ ws_state[s] = "Connecting"
    /\ \A t \in Sessions : t < s => ws_state[t] # "Connecting"
    /\ ws_token' = [ws_token EXCEPT ![s] = token]
    /\ LET user == get_current_user(token) IN
         IF user = None
           THEN /\ auth_failures < MaxAuthFailures
                /\ auth_failures' = auth_failures + 1
                /\ Closed1008(s)
                /\ UNCHANGED ws_user
           ELSE /\ ws_state' = [ws_state EXCEPT ![s] = "Accepting"]
                /\ ws_user' = [ws_user EXCEPT ![s] = user]
                /\ UNCHANGED <<close_code, auth_failures>>
    /\ UNCHANGED <<active_connections, online_users, pc, cur, messages,
                   groups, group_members, pushed, handled, received,
                   malformed, unmatched, redis_failures, db_failures,
                   http_status, stalled, auth_vars>>

\* ConnectionManager.connect after accept() returned
connect(s) ==
    /\ ws_state[s] = "Accepting"
    /\ active_connections' = Put(active_connections, ws_user[s], s)
    /\ \E redis \in RedisOutcomes :
         /\ Redis(redis)
         /\ IF redis = "ok"
           THEN /\ online_users' = set_user_online(online_users, ws_user[s])
                /\ ws_state' = [ws_state EXCEPT ![s] = "Open"]
                /\ UNCHANGED close_code
           ELSE /\ UNCHANGED online_users
                /\ Closed1008(s)
    /\ UNCHANGED <<ws_token, ws_user, pc, cur, messages, groups,
                   group_members, pushed, handled, received, malformed, unmatched,
                   auth_failures, db_failures, http_status, stalled, auth_vars>>

\* a disconnect that resets the whole dict
UnregisterAll(conns, user_id) == << >>

\* ConnectionManager.disconnect, lines 33-34: the entry of user_id is deleted,
\* whichever WebSocket it holds
Unregister(conns, user_id) ==
    IF user_id \in DOMAIN conns THEN Del(conns, user_id) ELSE conns

\* receive_text raises WebSocketDisconnect; `manager.disconnect(user.id)`
disconnect(s) ==
    /\ ws_state[s] = "Open"
    /\ pc[s] = "recv"
    /\ active_connections' = Unregister(active_connections, ws_user[s])
    /\ \E redis \in RedisOutcomes :
         /\ Redis(redis)
         /\ IF redis = "ok"
           THEN /\ online_users' = set_user_offline(online_users, ws_user[s])
                /\ ws_state' = [ws_state EXCEPT ![s] = "Closed"]
                /\ UNCHANGED close_code
           ELSE /\ UNCHANGED online_users
                /\ Closed1008(s)
    /\ UNCHANGED <<ws_token, ws_user, pc, cur, messages, groups,
                   group_members, pushed, handled, received, malformed, unmatched,
                   auth_failures, db_failures, http_status, stalled, auth_vars>>

\* ConnectionManager.send_personal_message: what the call does for user_id
SendResult(user_id) ==
    IF user_id \notin DOMAIN active_connections THEN "absent"
    ELSE IF ~Live(active_connections[user_id]) THEN "raised"
    ELSE "sent"

send_personal_message(psh, message, user_id) ==
    IF SendResult(user_id) = "sent"
      THEN Append(psh, [conn |-> active_connections[user_id], frame |-> message])
      ELSE psh

\* ------------------------------------------------------- websocket_endpoint
\* What json.loads and the subscripts ["type"], ["data"], ["content"] accept.
FrameKinds == {"garbage", "no_type", "no_data", "no_content",
               "message", "typing", "read_receipt", "ping"}

\* the tags the if / elif chain of lines 64, 127, 140 has a branch for
KnownTags == {"message", "typing", "read_receipt"}

\* a frame with a "type" no branch matches (the chain has no else)
OtherTags == FrameKinds \ (KnownTags \cup {"garbage", "no_type", "no_data", "no_content"})

Decodable(kind) == kind \in KnownTags \cup OtherTags

RECURSIVE Sum(_, _)
Sum(f, S) == IF S = {} THEN 0
             ELSE LET x == CHOOSE y \in S : TRUE IN f[x] + Sum(f, S \ {x})

\* a receive loop that takes the next frame while a handler is suspended
CanReceiveConcurrent(s) ==
    /\ ws_state[s] = "Open"
    /\ Sum(received, Sessions) < MaxFrames

CanReceive(s) ==
    /\ ws_state[s] = "Open"
    /\ pc[s] = "recv"
    /\ Sum(received, Sessions) < MaxFrames

Received(s, kind) ==
    /\ received' = [received EXCEPT ![s] = @ + 1]
    /\ malformed' = [malformed EXCEPT ![s] = @ + (IF Decodable(kind) THEN 0 ELSE 1)]
    /\ unmatched' = [unmatched EXCEPT ![s] = @ + (IF kind \in OtherTags THEN 1 ELSE 0)]

\* "Send confirmation to sender", line 125
Echo(s, m, resp, msgs, psh, hnd) ==
    IF SendResult(ws_user[s]) = "raised"
      THEN Finish(s, msgs, psh, MarkDone(hnd, m, "raised"), "raised")
      ELSE Finish(s, msgs, send_personal_message(psh, resp, ws_user[s]),
                  MarkDone(hnd, m, "ok"), "ok")

\* the status written at lines 111-113
StatusAfterPush(online, msg) ==
    IF is_user_online(online, msg.receiver_id) THEN DELIVERED ELSE msg.status

\* lines 110-113, then the echo
DeliverAndEcho(s, m, resp, msgs, psh, hnd) ==
    \E redis \in RedisOutcomes :
      /\ Redis(redis)
      /\ IF redis = "error"
          THEN Finish(s, msgs, psh, MarkDone(hnd, m, "raised"), "raised")
          ELSE Echo(s, m, resp,
                    [msgs EXCEPT ![m].status = StatusAfterPush(online_users, msgs[m])],
                    psh, hnd)

\* group.members, in the order the database returns the rows
Roster(g) == {r.user_id : r \in {x \in group_members : x.group_id = g}}

Orders(S) == {q \in [1..Cardinality(S) -> S] :
                 \A i, j \in 1..Cardinality(S) : q[i] = q[j] => i = j}

RECURSIVE FirstTarget(_, _)
\* index of the first member the loop of lines 120-122 pushes to
FirstTarget(todo, sender) ==
    IF todo = << >> THEN 0
    ELSE IF Head(todo) # sender /\ Head(todo) \in DOMAIN active_connections
      THEN 1
    ELSE LET r == FirstTarget(Tail(todo), sender) IN
           IF r = 0 THEN 0 ELSE r + 1

\* the loop of lines 120-122, from the members still to visit
FanOut(s, m, resp, todo, msgs, psh, hnd) ==
    LET i == FirstTarget(todo, ws_user[s]) IN
    IF i = 0 THEN Echo(s, m, resp, msgs, psh, hnd)
    ELSE IF SendResult(todo[i]) = "raised"
      THEN Finish(s, msgs, psh, MarkDone(hnd, m, "raised"), "raised")
    ELSE Yield(s, msgs, send_personal_message(psh, resp, todo[i]), hnd,
               "fanout",
               [msg |-> m, resp |-> resp,
                todo |-> SubSeq(todo, i + 1, Len(todo))])

\* the connection a push to user_id would reach, None when there is none
LiveConn(user_id) ==
    IF user_id # None /\ SendResult(user_id) = "sent"
      THEN active_connections[user_id] ELSE None

\* what the "data" of an inbound frame may hold under "sender_id" or
\* "reader_id": a user id, or nothing
PayloadIdentities == Users \cup {None}

\* a handler that takes the identity from the payload when it names one
IdentityFromPayload(user_id, claimed) ==
    IF claimed = None THEN user_id ELSE claimed

\* `sender_id=user.id` (line 77), `"sender_id": user.id` (line 132) and
\* `"reader_id": user.id` (line 154): the identity is the one of the token,
\* the payload is not read for it
Identity(user_id, claimed) == user_id

\* a "message" frame: lines 64-125 up to the first send_json that suspends
RecvMessage(s, receiver_id, group_id, content) ==
    /\ CanReceive(s)
    /\ Received(s, "message")
    /\ \E claimed \in PayloadIdentities :
       LET id == Len(messages) + 1
           db_message == NewMessage(id, Identity(ws_user[s], claimed),
                                    receiver_id, group_id, content)
           msgs == Append(messages, db_message)
           resp == Response(db_message)
           roster == IF receiver_id = None /\ group_id \in groups
                       THEN Roster(group_id) ELSE {}
           hnd == Append(handled, [conn |-> s, rcv_conn |-> LiveConn(receiver_id),
                                   rcv |-> IF receiver_id = None THEN "none"
                                           ELSE SendResult(receiver_id),
                                   roster |-> roster,
                                   targets |-> {LiveConn(u) : u \in roster \ {ws_user[s]}}
                                                  \ {None},
                                   done |-> "no"])
       IN IF receiver_id # None
            THEN IF SendResult(receiver_id) = "absent"
                   THEN DeliverAndEcho(s, id, resp, msgs, pushed, hnd)
                 ELSE IF SendResult(receiver_id) = "raised"
                   THEN /\ Finish(s, msgs, pushed, MarkDone(hnd, id, "raised"), "raised")
                        /\ UNCHANGED redis_failures
                 ELSE /\ Yield(s, msgs, send_personal_message(pushed, resp, receiver_id),
                               hnd, "delivering",
                               [msg |-> id, resp |-> resp, todo |-> << >>])
                      /\ UNCHANGED redis_failures
          ELSE IF group_id # None /\ group_id \in groups
            THEN /\ \E todo \in Orders(Roster(group_id)) :
                        FanOut(s, id, resp, todo, msgs, pushed, hnd)
                 /\ UNCHANGED redis_failures
          ELSE /\ Echo(s, id, resp, msgs, pushed, hnd)
               /\ UNCHANGED redis_failures
    /\ UNCHANGED <<active_connections, online_users, ws_token, ws_user,
                   groups, group_members, auth_failures, db_failures,
                   http_status, stalled, auth_vars>>

\* a handler that pushes the frame to the receiver before it commits the row
PushedBeforeCommit(psh, resp, receiver_id) ==
    IF receiver_id = None THEN psh
    ELSE send_personal_message(psh, resp, receiver_id)

\* what has been handed to send_json when db.commit() of line 87 raises: the
\* pushes of lines 108, 122 and 125 all come after it
PushedWhenCommitRaises(psh, resp, receiver_id) == psh

\* a "message" frame whose insert fails: db.commit() raises at line 87, the
\* outer except closes the socket
RecvMessageUnsaved(s, receiver_id, group_id, content) ==
    /\ CanReceive(s)
    /\ Received(s, "message")
    /\ db_failures < MaxDbFailures
    /\ db_failures' = db_failures + 1
    /\ LET db_message == NewMessage(Len(messages) + 1, ws_user[s], receiver_id,
                                    group_id, content)
       IN Finish(s, messages,
                 PushedWhenCommitRaises(pushed, Response(db_message), receiver_id),
                 handled, "raised")
    /\ UNCHANGED <<active_connections, online_users, ws_token, ws_user,
                   groups, group_members, auth_failures, redis_failures,
                   http_status, stalled, auth_vars>>

\* The peer of connection c stops reading: once the transport's buffers are
\* full, a send_json on c does not return while c stays open.
Stall(c) ==
    /\ ws_state[c] = "Open"
    /\ c \notin stalled
    /\ stalled' = stalled \cup {c}
    /\ UNCHANGED <<active_connections, online_users, ws_state, ws_token,
                   ws_user, close_code, pc, cur, messages, groups,
                   group_members, pushed, handled, received, malformed,
                   unmatched, auth_failures, redis_failures, db_failures,
                   http_status, auth_vars>>

\* `await ...send_json(message)` of line 39 on connection c can return
SendReturns(c) == ~(c \in stalled /\ Live(c))

\* the push to the receiver returned: lines 110-125
ResumeDirect(s) ==
    /\ ws_state[s] = "Open"
    /\ pc[s] = "delivering"
    /\ SendReturns(handled[cur[s].msg].rcv_conn)
    /\ DeliverAndEcho(s, cur[s].msg, cur[s].resp, messages, pushed, handled)
    /\ UNCHANGED <<active_connections, online_users, ws_token, ws_user,
                   groups, group_members, received, malformed, unmatched, auth_failures,
                   db_failures, http_status, stalled, auth_vars>>

\* the push to a group member returned: the loop goes on
ResumeFanOut(s) ==
    /\ ws_state[s] = "Open"
    /\ pc[s] = "fanout"
    /\ FanOut(s, cur[s].msg, cur[s].resp, cur[s].todo, messages, pushed, handled)
    /\ UNCHANGED <<active_connections, online_users, ws_token, ws_user,
                   groups, group_members, received, malformed, unmatched, auth_failures,
                   redis_failures, db_failures, http_status, stalled,
                   auth_vars>>

\* json.loads or a subscript raises: the outer except closes the socket
RecvMalformed(s, kind) ==
    /\ CanReceive(s)
    /\ ~Decodable(kind)
    /\ Received(s, kind)
    /\ Finish(s, messages, pushed, handled, "raised")
    /\ UNCHANGED <<active_connections, online_users, ws_token, ws_user,
                   groups, group_members, auth_failures, redis_failures,
                   db_failures, http_status, stalled, auth_vars>>

ReadReceiptFrame(message_id, reader_id) ==
    [type |-> "read_receipt",
     data |-> [message_id |-> message_id, reader_id |-> reader_id]]

\* line 145 without the comparison of the receiver with the acknowledging user
MayAcknowledgeAny(msgs, message_id, user_id) ==
    message_id \in DOMAIN msgs

\* `if message and message.receiver_id == user.id`, line 145
MayAcknowledge(msgs, message_id, user_id) ==
    /\ message_id \in DOMAIN msgs
    /\ msgs[message_id].receiver_id = user_id

\* a "read_receipt" frame: lines 140-157
RecvReadReceipt(s, message_id) ==
    /\ CanReceive(s)
    /\ Received(s, "read_receipt")
    /\ \E claimed \in PayloadIdentities :
       IF MayAcknowledge(messages, message_id, ws_user[s])
         THEN LET msgs == [messages EXCEPT ![message_id].status = READ]
                  to == messages[message_id].sender_id
                  reader_id == Identity(ws_user[s], claimed)
              IN IF SendResult(to) = "raised"
                   THEN Finish(s, msgs, pushed, handled, "raised")
                   ELSE Finish(s, msgs,
                               send_personal_message(pushed,
                                   ReadReceiptFrame(message_id, reader_id), to),
                               handled, "ok")
         ELSE Finish(s, messages, pushed, handled, "ok")
    /\ UNCHANGED <<active_connections, online_users, ws_token, ws_user,
                   groups, group_members, auth_failures, redis_failures,
                   db_failures, http_status, stalled, auth_vars>>

\* the `typing_status` dict of lines 130-137
TypingFrame(sender_id, receiver_id, is_typing) ==
    [type |-> "typing",
     data |-> [sender_id |-> sender_id, receiver_id |-> receiver_id,
               is_typing |-> is_typing]]

\* a "typing" frame: lines 127-138
RecvTyping(s, receiver_id, is_typing) ==
    /\ CanReceive(s)
    /\ Received(s, "typing")
    /\ \E claimed \in PayloadIdentities :
       IF SendResult(receiver_id) = "raised"
         THEN Finish(s, messages, pushed, handled, "raised")
         ELSE Finish(s, messages,
                     send_personal_message(pushed,
                         TypingFrame(Identity(ws_user[s], claimed),
                                     receiver_id, is_typing),
                         receiver_id),
                     handled, "ok")
    /\ UNCHANGED <<active_connections, online_users, ws_token, ws_user,
                   groups, group_members, auth_failures, redis_failures,
                   db_failures, http_status, stalled, auth_vars>>

\* a dispatch whose final else raises on a tag it does not know
UnmatchedRaises(tag) == "raised"

\* how the handler of a frame ends when no branch matches its tag: the chain
\* has no else, nothing runs
UnmatchedTag(tag) == "ok"

\* a frame whose "type" is none of the three: no branch runs, the loop
\* goes back to receive_text
RecvOther(s, tag) ==
    /\ CanReceive(s)
    /\ tag \in OtherTags
    /\ Received(s, tag)
    /\ Finish(s, messages, pushed, handled, UnmatchedTag(tag))
    /\ UNCHANGED <<active_connections, online_users, ws_token, ws_user,
                   groups, group_members, auth_failures, redis_failures,
                   db_failures, http_status, stalled, auth_vars>>

\* --------------------------------------------------------- get_chat_history
DEFAULT_LIMIT == 50

InConversation(msg, a, b) ==
    \/ msg.sender_id = a /\ msg.receiver_id = b
    \/ msg.sender_id = b /\ msg.receiver_id = a

\* position of message i in `order_by(created_at.desc())`, from 1
RankDesc(msgs, i, a, b) ==
    Cardinality({j \in DOMAIN msgs : j >= i /\ InConversation(msgs[j], a, b)})

\* the whole conversation, whatever offset and limit say
PageAll(msgs, a, b, skip, limit) ==
    {i \in DOMAIN msgs : InConversation(msgs[i], a, b)}

\* the rows `.offset(skip).limit(limit).all()` returns
Page(msgs, a, b, skip, limit) ==
    {i \in DOMAIN msgs :
        /\ InConversation(msgs[i], a, b)
        /\ RankDesc(msgs, i, a, b) > skip
        /\ RankDesc(msgs, i, a, b) <= skip + limit}

get_chat_history(current_user, user_id, skip, limit) ==
    /\ \E i \in Page(messages, current_user, user_id, skip, limit) :
          messages[i].receiver_id = current_user /\ messages[i].status # READ
    /\ messages' = [i \in DOMAIN messages |->
          IF /\ i \in Page(messages, current_user, user_id, skip, limit)
             /\ messages[i].receiver_id = current_user
             /\ messages[i].status # READ
            THEN [messages[i] EXCEPT !.status = READ]
            ELSE messages[i]]
    /\ UNCHANGED <<active_connections, online_users, ws_state, ws_token,
                   ws_user, close_code, pc, cur, groups, group_members,
                   pushed, handled, received, malformed, unmatched,
                   auth_failures, redis_failures, db_failures, http_status,
                   stalled, auth_vars>>

\* ------------------------------------------------------------ group_routes
HTTP_200_OK                    == 200
HTTP_201_CREATED               == 201
HTTP_204_NO_CONTENT            == 204
HTTP_400_BAD_REQUEST           == 400
HTTP_403_FORBIDDEN             == 403
HTTP_404_NOT_FOUND             == 404
HTTP_500_INTERNAL_SERVER_ERROR == 500

\* a db.commit() returns or raises
DbOutcomes == {"ok", "error"}

Db(outcome) ==
    IF outcome = "ok"
      THEN UNCHANGED db_failures
      ELSE /\ db_failures < MaxDbFailures
           /\ db_failures' = db_failures + 1

\* The group row is committed at line 33, the creator's admin membership in a
\* second transaction at line 45; an exception of the second commit leaves
\* the handler as a 500.
create_group(current_user, g) ==
    /\ g \notin groups
    /\ \A h \in Groups : h < g => h \in groups
    /\ groups' = groups \cup {g}
    /\ \E commit \in DbOutcomes :
          /\ Db(commit)
          /\ IF commit = "ok"
               THEN /\ group_members' = group_members \cup
                          {[group_id |-> g, user_id |-> current_user,
                            is_admin |-> TRUE]}
                    /\ http_status' = HTTP_201_CREATED
               ELSE /\ UNCHANGED group_members
                    /\ http_status' = HTTP_500_INTERNAL_SERVER_ERROR
    /\ UNCHANGED <<active_connections, online_users, ws_state, ws_token,
                   ws_user, close_code, pc, cur, messages, pushed, handled,
                   received, malformed, unmatched, auth_failures, redis_failures,
                   stalled, auth_vars>>

\* a check that lets every caller pass
is_admin_unchecked(members, g, user_id) == TRUE

\* the `is_admin` query of lines 231-235 and 294-298
is_admin_of(members, g, user_id) ==
    \E r \in members : r.group_id = g /\ r.user_id = user_id /\ r.is_admin

\* a lookup that finds only a row with the very role that is asked for
existing_member_same_role(members, g, user_id, is_admin) ==
    [group_id |-> g, user_id |-> user_id, is_admin |-> is_admin] \in members

\* the `existing_member` query of lines 252-256
existing_member(members, g, user_id, is_admin) ==
    \E r \in members : r.group_id = g /\ r.user_id = user_id

\* the status code add_group_member answers with
AddStatus(grps, members, current_user, g, user_id, is_admin) ==
    IF g \notin grps THEN HTTP_404_NOT_FOUND
    ELSE IF ~is_admin_of(members, g, current_user) THEN HTTP_403_FORBIDDEN
    ELSE IF user_id \notin Users THEN HTTP_404_NOT_FOUND
    ELSE IF existing_member(members, g, user_id, is_admin)
      THEN HTTP_400_BAD_REQUEST
    ELSE HTTP_200_OK

\* POST /groups/{group_id}/members
add_group_member(current_user, g, user_id, is_admin) ==
    /\ http_status' = AddStatus(groups, group_members, current_user, g,
                                user_id, is_admin)
    /\ group_members' =
          IF http_status' = HTTP_200_OK
            THEN group_members \cup
                   {[group_id |-> g, user_id |-> user_id, is_admin |-> is_admin]}
            ELSE group_members
    /\ UNCHANGED <<active_connections, online_users, ws_state, ws_token,
                   ws_user, close_code, pc, cur, messages, groups, pushed,
                   handled, received, malformed, unmatched, auth_failures,
                   redis_failures, db_failures, stalled, auth_vars>>

\* the row of user_id in group g; a group holds at most one row per user
\* (add_group_member refuses a second one), so the row stands for its id
MemberRows(members, g, user_id) ==
    {r \in members : r.group_id = g /\ r.user_id = user_id}

\* lines 321-324
admin_count(members, g) ==
    Cardinality({r \in members : r.group_id = g /\ r.is_admin})

\* a check that refuses only when no admin is counted at all
IsLastAdminStrict(members, member) ==
    member.is_admin /\ admin_count(members, member.group_id) < 1

\* "Prevent removal of the last admin", lines 320-331
IsLastAdmin(members, member) ==
    member.is_admin /\ admin_count(members, member.group_id) <= 1

\* the status code remove_group_member answers with
RemoveStatus(grps, members, current_user, g, target) ==
    IF g \notin grps THEN HTTP_404_NOT_FOUND
    ELSE IF MemberRows(members, g, target) = {} THEN HTTP_404_NOT_FOUND
    ELSE LET member == CHOOSE r \in MemberRows(members, g, target) : TRUE IN
         IF member.user_id # current_user /\ ~is_admin_of(members, g, current_user)
           THEN HTTP_403_FORBIDDEN
         ELSE IF IsLastAdmin(members, member) THEN HTTP_400_BAD_REQUEST
         ELSE HTTP_204_NO_CONTENT

\* DELETE /groups/{group_id}/members/{member_id}, member_id the row of target
remove_group_member(current_user, g, target) ==
    /\ http_status' = RemoveStatus(groups, group_members, current_user, g, target)
    /\ group_members' =
          IF http_status' = HTTP_204_NO_CONTENT
            THEN group_members \ MemberRows(group_members, g, target)
            ELSE group_members
    /\ UNCHANGED <<active_connections, online_users, ws_state, ws_token,
                   ws_user, close_code, pc, cur, messages, groups, pushed,
                   handled, received, malformed, unmatched, auth_failures,
                   redis_failures, db_failures, stalled, auth_vars>>

\* ------------------------------------------------------------- auth.routes
Emails == {"a@x.io", "b@x.io"}
Phones == {"+4411", "+4412"}

\* Python None in an Optional[str] contact field
NoContact == "None"

Passwords == {"pw-one", "pw-two"}

\* pwd_context.hash: the stored string is not the password
get_password_hash(password) == <<"bcrypt", password>>

\* UserCreate payloads naming at least one contact
Registrations ==
    {d \in [email : Emails \cup {NoContact},
            phone_number : Phones \cup {NoContact},
            password : Passwords] :
        d.email # NoContact \/ d.phone_number # NoContact}

\* lines 32-46: a row holds the email, or the phone number, of the payload
AlreadyRegistered(table, user_data) ==
    \/ /\ user_data.email # NoContact
       /\ \E i \in DOMAIN table : table[i].email = user_data.email
    \/ /\ user_data.phone_number # NoContact
       /\ \E i \in DOMAIN table : table[i].phone_number = user_data.phone_number

\* lines 66-71: the task the handler hands to BackgroundTasks
OtpTask(user) ==
    IF user.email # NoContact
      THEN [task |-> "send_email_otp", user_id |-> user.id]
    ELSE [task |-> "send_sms_otp", user_id |-> user.id]

OtpTasks == [task : {"send_email_otp", "send_sms_otp"}, user_id : 1..MaxAccounts]

\* background_tasks.add_task returns or raises
DispatchOutcomes == {"added", "error"}

\* a register without the try / except of lines 65-74
RegisterStatusPropagating(dispatch) ==
    IF dispatch = "error" THEN HTTP_500_INTERNAL_SERVER_ERROR
    ELSE HTTP_201_CREATED

\* lines 65-76: an exception of the dispatch is printed, `return user` follows
RegisterStatus(dispatch) == HTTP_201_CREATED

\* POST /register
register(user_data, dispatch) ==
    /\ IF AlreadyRegistered(users_table, user_data)
         THEN /\ http_status' = HTTP_400_BAD_REQUEST
              /\ http_body' = None
              /\ UNCHANGED <<users_table, background_tasks>>
         ELSE /\ Len(users_table) < MaxAccounts
              /\ LET user == [id |-> Len(users_table) + 1,
                              email |-> user_data.email,
                              phone_number |-> user_data.phone_number,
                              hashed_password |->
                                  get_password_hash(user_data.password),
                              is_verified |-> FALSE]
                 IN /\ users_table' = Append(users_table, user)
                    /\ background_tasks' =
                          IF dispatch = "added"
                            THEN background_tasks \cup {OtpTask(user)}
                            ELSE background_tasks
                    /\ http_status' = RegisterStatus(dispatch)
                    /\ http_body' =
                          IF http_status' = HTTP_201_CREATED THEN user.id ELSE None
    /\ UNCHANGED <<otps, otp_status, chat_vars>>

\* what happens inside send_email_otp_task / send_sms_otp_task: generate_otp or
\* store_otp raises, the SMTP / Twilio call raises, or everything goes through
OtpOutcomes == {"store_failed", "send_failed", "sent"}

\* the dict the task returns (tasks.py:60-69; 127-136): the outer except
\* answers "error", the inner one "success" with the console fallback
OtpTaskResult(outcome) ==
    IF outcome = "store_failed" THEN "error"
    ELSE IF outcome = "send_failed" THEN "console"
    ELSE "sent"

\* what generate_otp may draw; two draws may be equal
Codes == {"111111", "222222"}

\* redis_client: setex / get / delete of the key "otp:<user_id>"
store_otp(store, user_id, otp) == Put(store, user_id, otp)

NoOtp == "None"

get_otp(store, user_id) ==
    IF user_id \in DOMAIN store THEN store[user_id] ELSE NoOtp

delete_otp(store, user_id) ==
    IF user_id \in DOMAIN store THEN Del(store, user_id) ELSE store

\* Starlette runs a task of BackgroundTasks after the response has been sent
send_otp_task(t, outcome) ==
    /\ t \in background_tasks
    /\ background_tasks' = background_tasks \ {t}
    /\ \E otp \in Codes :
          otps' = IF outcome = "store_failed" THEN otps
                  ELSE store_otp(otps, t.user_id, otp)
    /\ otp_status' = [otp_status EXCEPT ![t.user_id] = OtpTaskResult(outcome)]
    /\ UNCHANGED <<users_table, http_body, http_status, chat_vars>>

\* the chat variables no auth route writes; the Redis failure count is theirs
chat_vars_but_redis ==
    <<active_connections, online_users, ws_state, ws_token, ws_user,
      close_code, pc, cur, messages, groups, group_members, pushed, handled,
      received, malformed, unmatched, auth_failures, db_failures, stalled>>

\* is_email: the regular expression of line 25
is_email(contact) == contact \in Emails

\* `db.query(User).filter(User.email == contact).first()` or the same by
\* phone number: the id of the row, None when there is none
FindUser(table, contact, by_email) ==
    LET rows == {i \in DOMAIN table :
                    IF by_email THEN table[i].email = contact
                    ELSE table[i].phone_number = contact}
    IN IF rows = {} THEN None ELSE CHOOSE i \in rows : TRUE

\* POST /send-otp: the task runs inside the handler, an "error" result or an
\* exception becomes a 500
send_otp(contact, contact_type, outcome) ==
    /\ LET user == FindUser(users_table, contact, contact_type = "email") IN
       IF user = None
         THEN /\ http_status' = HTTP_404_NOT_FOUND
              /\ UNCHANGED <<otps, otp_status>>
         ELSE /\ \E otp \in Codes :
                    otps' = IF outcome = "store_failed" THEN otps
                            ELSE store_otp(otps, user, otp)
              /\ otp_status' = [otp_status EXCEPT ![user] = OtpTaskResult(outcome)]
              /\ http_status' = IF OtpTaskResult(outcome) = "error"
                                  THEN HTTP_500_INTERNAL_SERVER_ERROR
                                  ELSE HTTP_200_OK
    /\ http_body' = None
    /\ UNCHANGED <<users_table, background_tasks, chat_vars>>

\* the Redis call of a verify_otp / reset_password request that raises, if any
RedisFaults == {"none", "get_otp", "delete_otp"}

\* lines 180-216 and 234-252, from the user row on: `change` is what the
\* handler writes to the row and commits once the passcode matched
UseOtp(user, otp, fault, change, body) ==
    LET stored_otp == get_otp(otps, user) IN
    IF fault = "get_otp"
      THEN /\ Redis("error")
           /\ http_status' = HTTP_500_INTERNAL_SERVER_ERROR
           /\ http_body' = None
           /\ UNCHANGED <<users_table, otps>>
    ELSE IF stored_otp = NoOtp \/ stored_otp # otp
      THEN /\ fault = "none"
           /\ Redis("ok")
           /\ http_status' = HTTP_400_BAD_REQUEST
           /\ http_body' = None
           /\ UNCHANGED <<users_table, otps>>
    ELSE /\ users_table' = [users_table EXCEPT ![user] = change]
         /\ IF fault = "delete_otp"
              THEN /\ Redis("error")
                   /\ http_status' = HTTP_500_INTERNAL_SERVER_ERROR
                   /\ http_body' = None
                   /\ UNCHANGED otps
              ELSE /\ Redis("ok")
                   /\ otps' = delete_otp(otps, user)
                   /\ http_status' = HTTP_200_OK
                   /\ http_body' = body

\* POST /verify-otp
verify_otp(contact, otp, fault) ==
    /\ LET user == FindUser(users_table, contact, is_email(contact)) IN
       IF user = None
         THEN /\ fault = "none"
              /\ http_status' = HTTP_404_NOT_FOUND
              /\ http_body' = None
              /\ UNCHANGED <<users_table, otps, redis_failures>>
         ELSE UseOtp(user, otp, fault,
                     [users_table[user] EXCEPT !.is_verified = TRUE], user)
    /\ UNCHANGED <<background_tasks, otp_status, chat_vars_but_redis>>

\* POST /reset-password
reset_password(contact, otp, new_password, fault) ==
    /\ LET user == FindUser(users_table, contact, is_email(contact)) IN
       IF user = None
         THEN /\ fault = "none"
              /\ http_status' = HTTP_404_NOT_FOUND
              /\ http_body' = None
              /\ UNCHANGED <<users_table, otps, redis_failures>>
         ELSE UseOtp(user, otp, fault,
                     [users_table[user] EXCEPT
                         !.hashed_password = get_password_hash(new_password)],
                     None)
    /\ UNCHANGED <<background_tasks, otp_status, chat_vars_but_redis>>

\* OTP_EXPIRY_SECONDS after setex Redis drops the key
expire_otp(user_id) ==
    /\ user_id \in DOMAIN otps
    /\ otps' = Del(otps, user_id)
    /\ UNCHANGED <<users_table, background_tasks, otp_status, http_body,
                   http_status, chat_vars>>

\* the accounts and the contacts of the passcode requests
OtpRegistrations ==
    {d \in Registrations : /\ d.email \in {"a@x.io", NoContact}
                           /\ d.phone_number \in {"+4411", NoContact}
                           /\ d.password = "pw-one"}

Contacts == {"a@x.io", "+4411"}

\* Registered users who request, use and lose passcodes.
NextOtp ==
    \/ \E user_data \in OtpRegistrations : register(user_data, "error")
    \/ \E contact \in Contacts, contact_type \in {"email", "phone"},
          outcome \in OtpOutcomes : send_otp(contact, contact_type, outcome)
    \/ \E contact \in Contacts, otp \in Codes, fault \in RedisFaults :
          verify_otp(contact, otp, fault)
    \/ \E contact \in Contacts, otp \in Codes, new_password \in Passwords,
          fault \in RedisFaults : reset_password(contact, otp, new_password, fault)
    \/ \E user_id \in 1..MaxAccounts : expire_otp(user_id)

SpecOtp == Init /\ [][NextOtp]_vars

NextRegister ==
    \/ \E user_data \in Registrations, dispatch \in DispatchOutcomes :
          register(user_data, dispatch)
    \/ \E t \in OtpTasks, outcome \in OtpOutcomes :
          send_otp_task(t, outcome)

SpecRegister == Init /\ [][NextRegister]_vars

\* The connection and direct-delivery core: sessions, direct messages, read
\* receipts and history fetches.
Next ==
    \/ \E s \in Sessions, token \in Tokens : Authenticate(s, token)
    \/ \E s \in Sessions : connect(s)
    \/ \E s \in Sessions : disconnect(s)
    \/ \E s \in Sessions, r \in Users \cup {None}, c \in Contents :
          RecvMessage(s, r, None, c)
    \/ \E s \in Sessions : ResumeDirect(s)
    \/ \E s \in Sessions, k \in FrameKinds : RecvMalformed(s, k)
    \/ \E s \in Sessions, m \in 1..MaxFrames : RecvReadReceipt(s, m)
    \/ \E s \in Sessions, r \in Users, t \in BOOLEAN : RecvTyping(s, r, t)
    \/ \E s \in Sessions, tag \in OtherTags : RecvOther(s, tag)
    \/ \E u \in Users, v \in Users, skip \in {0, 1}, limit \in {1, DEFAULT_LIMIT} :
          get_chat_history(u, v, skip, limit)

Spec == Init /\ [][Next]_vars

\* Sessions with the groups table and group messages.
NextGroup ==
    \/ \E s \in Sessions, token \in Tokens : Authenticate(s, token)
    \/ \E s \in Sessions : connect(s)
    \/ \E s \in Sessions : disconnect(s)
    \/ \E s \in Sessions, g \in Groups, c \in Contents :
          RecvMessage(s, None, g, c)
    \/ \E s \in Sessions : ResumeFanOut(s)
    \/ \E u \in Users, g \in Groups : create_group(u, g)
    \/ \E u \in Users, g \in Groups, v \in Users \cup {UnknownUser},
          a \in BOOLEAN : add_group_member(u, g, v, a)
    \/ \E u \in Users, g \in Groups, v \in Users :
          remove_group_member(u, g, v)

SpecGroup == Init /\ [][NextGroup]_vars

\* Message frames naming a receiver, a group, both or neither, with the read
\* receipts and history fetches that may follow them.
NextMixed ==
    \/ \E s \in Sessions, token \in Tokens : Authenticate(s, token)
    \/ \E s \in Sessions : connect(s)
    \/ \E s \in Sessions : disconnect(s)
    \/ \E u \in Users, g \in Groups : create_group(u, g)
    \/ \E s \in Sessions, r \in Users \cup {None}, g \in Groups \cup {None},
          c \in Contents : RecvMessage(s, r, g, c)
    \/ \E s \in Sessions : ResumeDirect(s)
    \/ \E s \in Sessions : ResumeFanOut(s)
    \/ \E s \in Sessions, m \in 1..MaxFrames : RecvReadReceipt(s, m)
    \/ \E u \in Users, v \in Users : get_chat_history(u, v, 0, DEFAULT_LIMIT)

SpecMixed == Init /\ [][NextMixed]_vars

\* Direct messages between sessions whose peers may stop reading. The event
\* loop resumes a task whose awaited send has returned.
NextStall ==
    \/ \E s \in Sessions, token \in Tokens : Authenticate(s, token)
    \/ \E s \in Sessions : connect(s)
    \/ \E s \in Sessions : disconnect(s)
    \/ \E s \in Sessions, r \in Users, c \in Contents :
          RecvMessage(s, r, None, c)
    \/ \E s \in Sessions : ResumeDirect(s)
    \/ \E c \in Sessions : Stall(c)

SpecStall ==
    /\ Init
    /\ [][NextStall]_vars
    /\ \A s \in Sessions : WF_vars(ResumeDirect(s))

\* Message frames whose insert may fail.
NextPersist ==
    \/ \E s \in Sessions, token \in Tokens : Authenticate(s, token)
    \/ \E s \in Sessions : connect(s)
    \/ \E s \in Sessions : disconnect(s)
    \/ \E u \in Users, g \in Groups : create_group(u, g)
    \/ \E s \in Sessions, r \in Users \cup {None}, g \in Groups \cup {None},
          c \in Contents : RecvMessage(s, r, g, c)
    \/ \E s \in Sessions, r \in Users \cup {None}, g \in Groups \cup {None},
          c \in Contents : RecvMessageUnsaved(s, r, g, c)
    \/ \E s \in Sessions : ResumeDirect(s)
    \/ \E s \in Sessions : ResumeFanOut(s)

SpecPersist == Init /\ [][NextPersist]_vars

\* The server starts on a database that holds one direct message of an earlier
\* run (the messages table outlives the process, the registry does not).
StoredMessages ==
    {[NewMessage(1, sender, receiver, None, c) EXCEPT !.status = status] :
        sender \in Users, receiver \in Users, c \in Contents,
        status \in {SENT, DELIVERED}}

InitStored ==
    /\ active_connections = << >>
    /\ online_users = {}
    /\ ws_state = [s \in Sessions |-> "Connecting"]
    /\ ws_token = [s \in Sessions |-> NoToken]
    /\ ws_user = [s \in Sessions |-> None]
    /\ close_code = [s \in Sessions |-> None]
    /\ pc = [s \in Sessions |-> "recv"]
    /\ cur = [s \in Sessions |-> NoCur]
    /\ \E msg \in StoredMessages : messages = <<msg>>
    /\ groups = {}
    /\ group_members = {}
    /\ pushed = << >>
    /\ handled = <<[conn |-> None, rcv_conn |-> None, rcv |-> "none",
                    roster |-> {}, targets |-> {}, done |-> "ok"]>>
    /\ received = [s \in Sessions |-> 0]
    /\ malformed = [s \in Sessions |-> 0]
    /\ unmatched = [s \in Sessions |-> 0]
    /\ auth_failures = 0
    /\ redis_failures = 0
    /\ users_table = << >>
    /\ background_tasks = {}
    /\ otps = << >>
    /\ otp_status = [u \in 1..MaxAccounts |-> "none"]
    /\ http_body = None
    /\ stalled = {}
    /\ http_status = None
    /\ db_failures = 0

\* Sessions that acknowledge and fetch what the database already holds.
NextStored ==
    \/ \E s \in Sessions, token \in Tokens : Authenticate(s, token)
    \/ \E s \in Sessions : connect(s)
    \/ \E s \in Sessions : disconnect(s)
    \/ \E s \in Sessions, m \in 1..MaxFrames : RecvReadReceipt(s, m)
    \/ \E u \in Users, v \in Users, skip \in {0, 1}, limit \in {1, DEFAULT_LIMIT} :
          get_chat_history(u, v, skip, limit)

SpecStored == InitStored /\ [][NextStored]_vars

\* Direct messages and history fetches alone: a status read is the work of
\* get_chat_history.
NextHistory ==
    \/ \E s \in Sessions, token \in Tokens : Authenticate(s, token)
    \/ \E s \in Sessions : connect(s)
    \/ \E s \in Sessions : disconnect(s)
    \/ \E s \in Sessions, r \in Users, c \in Contents :
          RecvMessage(s, r, None, c)
    \/ \E s \in Sessions : ResumeDirect(s)
    \/ \E u \in Users, v \in Users, skip \in {0, 1}, limit \in {1, DEFAULT_LIMIT} :
          get_chat_history(u, v, skip, limit)

SpecHistory == Init /\ [][NextHistory]_vars

\* ======================================================================
\* Properties
\* ======================================================================
Registered(u) == u \in DOMAIN active_connections

Rank(status) == IF status = SENT THEN 1 ELSE IF status = DELIVERED THEN 2 ELSE 3

\* message frames carrying message id m, as positions of `pushed`
FramesOf(m) == {i \in DOMAIN pushed :
                   pushed[i].frame.type = "message" /\ pushed[i].frame.data.id = m}

\* those of them handed to a connection of user u
FramesTo(m, u) == {i \in FramesOf(m) : ws_user[pushed[i].conn] = u}

\* the step in which receive_text of s raises WebSocketDisconnect
DisconnectStep(s) ==
    /\ ws_state[s] = "Open"
    /\ pc[s] = "recv"
    /\ ws_state'[s] = "Closed"
    /\ received' = received

\* C1: a user is in the presence set iff the registry holds an entry for it,
\* in every reachable state, Redis failures included.
PresenceMatchesRegistry ==
    \A u \in Users : is_user_online(online_users, u) <=> Registered(u)

\* C2: the disconnect of a session that is no longer the registered handle of
\* its user leaves the registry and the presence set as they are.
StaleDisconnectGuard ==
    [][\A s \in Sessions :
          (/\ DisconnectStep(s)
           /\ Registered(ws_user[s])
           /\ active_connections[ws_user[s]] # s)
          => /\ active_connections' = active_connections
             /\ online_users' = online_users]_vars

\* C3: every registry entry refers to a session that is still Open, and every
\* online user has an Open session (stated for runs in which no Redis call
\* failed).
NoDeadConnection ==
    redis_failures = 0 =>
        /\ \A u \in DOMAIN active_connections :
               ws_state[active_connections[u]] = "Open"
        /\ \A u \in online_users :
               \E s \in Sessions : ws_user[s] = u /\ ws_state[s] = "Open"

\* C4: a direct message whose stored status is delivered was pushed, as a
\* message frame, to a connection of its receiver.
DeliveredOnlyIfPushed ==
    \A m \in DOMAIN messages :
        (messages[m].receiver_id # None /\ messages[m].status = DELIVERED)
        => FramesTo(m, messages[m].receiver_id) # {}

\* C5: no write lowers the stored status of a message in the order
\* sent < delivered < read (stated for messages between two different users).
StatusMonotonic ==
    [][\A m \in DOMAIN messages :
          messages[m].receiver_id # messages[m].sender_id
          => Rank(messages'[m].status) >= Rank(messages[m].status)]_vars

\* C6: a direct message received while its receiver R (another user) had a
\* live registered connection: once its frame is handled, R's connection got
\* exactly one message frame with the content and id, the stored status is at
\* least delivered, and a connection of the sender got, later than R's push,
\* an echo whose status field is sent (stated for runs with no Redis failure).
RoundTrip ==
    redis_failures = 0 =>
    \A m \in DOMAIN messages :
        (/\ handled[m].done # "no"
         /\ handled[m].rcv = "sent"
         /\ messages[m].receiver_id # messages[m].sender_id)
        => /\ handled[m].done = "ok"
           /\ Cardinality(FramesTo(m, messages[m].receiver_id)) = 1
           /\ \A i \in FramesTo(m, messages[m].receiver_id) :
                 /\ pushed[i].conn = handled[m].rcv_conn
                 /\ pushed[i].frame.data.content = messages[m].content
           /\ Rank(messages[m].status) >= Rank(DELIVERED)
           /\ \E e \in FramesTo(m, messages[m].sender_id) :
                 /\ pushed[e].frame.data.status = SENT
                 /\ \A i \in FramesTo(m, messages[m].receiver_id) : i < e

\* C7: a direct message received while its receiver R (another user) had no
\* registry entry: the handler ends without an exception, the status is never
\* delivered, no frame of the message goes to R, and a connection of the
\* sender gets the echo (stated for runs with no Redis failure).
OfflineReceiver ==
    redis_failures = 0 =>
    \A m \in DOMAIN messages :
        (/\ handled[m].done # "no"
         /\ handled[m].rcv = "absent"
         /\ messages[m].receiver_id # messages[m].sender_id)
        => /\ handled[m].done = "ok"
           /\ messages[m].status # DELIVERED
           /\ FramesTo(m, messages[m].receiver_id) = {}
           /\ FramesTo(m, messages[m].sender_id) # {}

\* C8: every persisted direct or group message whose handler has ended
\* produced exactly one echo frame, pushed to a connection of the sender
\* (stated for runs with no Redis failure and for messages not addressed to
\* the sender itself).
EchoUnconditional ==
    redis_failures = 0 =>
    \A m \in DOMAIN messages :
        (/\ handled[m].done # "no"
         /\ messages[m].receiver_id # None \/ messages[m].group_id # None
         /\ messages[m].receiver_id # messages[m].sender_id)
        => Cardinality(FramesTo(m, messages[m].sender_id)) = 1

\* C9: the step that receives a malformed frame leaves the session Open and
\* registered, persists nothing and pushes nothing.
MalformedFrameDropped ==
    [][\A s \in Sessions :
          malformed'[s] > malformed[s]
          => /\ ws_state'[s] = "Open"
             /\ active_connections' = active_connections
             /\ messages' = messages
             /\ pushed' = pushed]_vars

\* a token that verifies and names a row of the users table
Authentic(token) == token.valid /\ token.sub \in Users

\* what holds of a session whose token is not authentic, once it has started
Rejected(s) ==
    /\ ws_state[s] = "Closed"
    /\ close_code[s] = POLICY_VIOLATION
    /\ ws_user[s] = None
    /\ received[s] = 0
    /\ \A u \in DOMAIN active_connections : active_connections[u] # s
    /\ \A i \in DOMAIN pushed : pushed[i].conn # s

\* C10: a session whose token is not authentic is Closed with code 1008, is
\* never in the registry, receives no frame and its start changes neither the
\* registry nor the presence set; every registry entry for U holds a session
\* whose token is authentic and names U.
AuthenticationFirst ==
    /\ [](\A s \in Sessions :
            (ws_state[s] # "Connecting" /\ ~Authentic(ws_token[s])) => Rejected(s))
    /\ [](\A u \in DOMAIN active_connections :
            /\ Authentic(ws_token[active_connections[u]])
            /\ ws_token[active_connections[u]].sub = u)
    /\ [][\A s \in Sessions :
            (ws_state[s] = "Connecting" /\ ws_state'[s] # "Connecting"
               /\ ~Authentic(ws_token'[s]))
            => /\ active_connections' = active_connections
               /\ online_users' = online_users]_vars

\* a forged token was refused while another session is registered and online
AuthenticationFirstWitness ==
    /\ \E s \in Sessions :
          /\ ws_state[s] = "Closed"
          /\ ~ws_token[s].valid
          /\ ws_token[s].sub \in Users
    /\ \E u \in DOMAIN active_connections :
          /\ ws_state[active_connections[u]] = "Open"
          /\ u \in online_users

\* the frames of message m handed to connection c
FramesFor(m, c) == {i \in FramesOf(m) : pushed[i].conn = c}

\* C11: a group message sent by a member B of the group, once its handler has
\* ended: the handler ended without an exception, every frame of the message
\* went to a user of the roster, each member other than B got at most one,
\* each connection of such a member that was registered and live when the frame
\* arrived and still is got one, B got exactly one frame (the echo), and the
\* stored status is sent (stated for runs with no Redis failure).
GroupFanOut ==
    redis_failures = 0 =>
    \A m \in DOMAIN messages :
        (/\ handled[m].done # "no"
         /\ messages[m].receiver_id = None
         /\ messages[m].group_id \in groups
         /\ messages[m].sender_id \in handled[m].roster)
        => /\ handled[m].done = "ok"
           /\ \A i \in FramesOf(m) : ws_user[pushed[i].conn] \in handled[m].roster
           /\ \A u \in handled[m].roster \ {messages[m].sender_id} :
                 Cardinality(FramesTo(m, u)) <= 1
           /\ \A c \in handled[m].targets :
                 LiveConn(ws_user[c]) = c => FramesFor(m, c) # {}
           /\ Cardinality(FramesTo(m, messages[m].sender_id)) = 1
           /\ messages[m].status = SENT

\* C12: every persisted message with a group id has status sent, whatever
\* message frames, read receipts and history fetches came before.
GroupStatusSent ==
    \A m \in DOMAIN messages :
        messages[m].group_id # None => messages[m].status = SENT

\* C13: every persisted message has exactly one of receiver id and group id.
ExactlyOneAddressee ==
    \A m \in DOMAIN messages :
        (messages[m].receiver_id = None) # (messages[m].group_id = None)

\* C14: a read_receipt frame for message id m received by session s: when the
\* message exists and the user of s is its receiver, the status becomes read
\* and one read_receipt frame goes to the registered live connection of the
\* sender, none when the sender has no live connection; otherwise no message
\* changes, no frame is pushed and s stays Open.
ReadReceiptFromReceiver ==
    [][\A s \in Sessions, m \in 1..MaxFrames :
          RecvReadReceipt(s, m) =>
             IF m \in DOMAIN messages /\ messages[m].receiver_id = ws_user[s]
               THEN /\ messages' = [messages EXCEPT ![m].status = READ]
                    /\ IF LiveConn(messages[m].sender_id) # None
                         THEN pushed' = Append(pushed,
                                  [conn |-> LiveConn(messages[m].sender_id),
                                   frame |-> [type |-> "read_receipt",
                                              data |-> [message_id |-> m,
                                                        reader_id |-> ws_user[s]]]])
                         ELSE pushed' = pushed
               ELSE /\ messages' = messages
                    /\ pushed' = pushed
                    /\ ws_state'[s] = "Open"]_vars

\* a receiver acknowledged a message of another user, whose connection got the
\* read_receipt frame
ReadReceiptFromReceiverWitness ==
    \E i \in DOMAIN pushed :
        /\ pushed[i].frame.type = "read_receipt"
        /\ LET m == messages[pushed[i].frame.data.message_id] IN
             /\ m.status = READ
             /\ m.receiver_id = pushed[i].frame.data.reader_id
             /\ m.sender_id # m.receiver_id
             /\ ws_user[pushed[i].conn] = m.sender_id

\* the read_receipt frames pushed for message id m
ReceiptsOf(m) == {i \in DOMAIN pushed :
                     /\ pushed[i].frame.type = "read_receipt"
                     /\ pushed[i].frame.data.message_id = m}

\* C15: however often the receiver acknowledges message m of another user,
\* that sender is sent at most one read_receipt frame for it, and once one was
\* sent the status is read.
ReadReceiptIdempotent ==
    \A m \in DOMAIN messages :
        messages[m].sender_id # messages[m].receiver_id
        => /\ Cardinality(ReceiptsOf(m)) <= 1
           /\ ReceiptsOf(m) # {} => messages[m].status = READ

\* C16: a typing frame naming receiver r, received by session s, changes no
\* message, no registry entry and no presence; when r has a registered live
\* connection that connection is pushed one typing frame carrying the user of
\* s as sender_id, otherwise nothing is pushed and s stays Open (stated for
\* runs with no Redis failure).
TypingTransient ==
    [][\A s \in Sessions, r \in Users, t \in BOOLEAN :
          (redis_failures = 0 /\ RecvTyping(s, r, t)) =>
             /\ messages' = messages
             /\ active_connections' = active_connections
             /\ online_users' = online_users
             /\ IF LiveConn(r) # None
                  THEN pushed' = Append(pushed,
                           [conn |-> LiveConn(r),
                            frame |-> [type |-> "typing",
                                       data |-> [sender_id |-> ws_user[s],
                                                 receiver_id |-> r,
                                                 is_typing |-> t]]])
                  ELSE /\ pushed' = pushed
                       /\ ws_state'[s] = "Open"]_vars

\* C17: the step in which session s receives a frame whose tag no branch
\* matches changes no message, no registry entry, no presence, pushes nothing
\* and leaves s Open.
UnknownTagIgnored ==
    [][\A s \in Sessions :
          unmatched'[s] > unmatched[s]
          => /\ messages' = messages
             /\ active_connections' = active_connections
             /\ online_users' = online_users
             /\ pushed' = pushed
             /\ ws_state[s] = "Open"
             /\ ws_state' = ws_state
             /\ close_code' = close_code]_vars

\* a registered session received a frame with an unknown tag after a message
\* was stored and pushed, and is still Open and registered
UnknownTagIgnoredWitness ==
    \E s \in Sessions :
        /\ unmatched[s] > 0
        /\ ws_state[s] = "Open"
        /\ LiveConn(ws_user[s]) = s
        /\ messages # << >>
        /\ pushed # << >>

\* C18: every registry entry of user U holds one session of U; the step in
\* which connect of session s completes leaves s as the handle of its user and
\* the user online, changes no other entry and closes no session, the handle
\* it replaces included; and every frame pushed goes to the session that is
\* the registered handle of its user at that moment.
LastConnectWins ==
    /\ [](\A u \in DOMAIN active_connections :
            /\ active_connections[u] \in Sessions
            /\ ws_user[active_connections[u]] = u)
    /\ [][\A s \in Sessions :
            (ws_state[s] = "Accepting" /\ ws_state'[s] = "Open")
            => /\ Registered(ws_user[s])'
               /\ active_connections'[ws_user[s]] = s
               /\ is_user_online(online_users', ws_user[s])
               /\ \A u \in Users \ {ws_user[s]} :
                     /\ Registered(u)' <=> Registered(u)
                     /\ Registered(u) => active_connections'[u] = active_connections[u]
               /\ \A t \in Sessions \ {s} :
                     ws_state'[t] = ws_state[t] /\ close_code'[t] = close_code[t]]_vars
    /\ [][pushed' # pushed
            => /\ Len(pushed') = Len(pushed) + 1
               /\ SubSeq(pushed', 1, Len(pushed)) = pushed
               /\ LET c == pushed'[Len(pushed')].conn IN
                    /\ Registered(ws_user[c])
                    /\ active_connections[ws_user[c]] = c]_vars

\* a user connected twice: the older session is still Open, the registry holds
\* the other one, and the frames pushed to that user went to it alone
LastConnectWinsWitness ==
    \E s, t \in Sessions :
        /\ s # t
        /\ ws_user[s] = ws_user[t]
        /\ ws_state[s] = "Open" /\ ws_state[t] = "Open"
        /\ LiveConn(ws_user[t]) = t
        /\ \E i \in DOMAIN pushed : pushed[i].conn = t
        /\ \A i \in DOMAIN pushed : pushed[i].conn # s

\* what one call send_personal_message(frame, u) made by the task of session s
\* is to do: nothing at all when u has no registry entry, and one push of the
\* frame to the registered handle of u otherwise
SendContract(s, u, frame) ==
    IF ~Registered(u)
      THEN /\ pushed' = pushed
           /\ ws_state'[s] = "Open"
           /\ active_connections' = active_connections
           /\ online_users' = online_users
      ELSE pushed' = Append(pushed, [conn |-> active_connections[u], frame |-> frame])

\* C19: the send of a typing frame, and the send of the read_receipt frame of
\* an accepted receipt, is a non-event when the addressee has no registry
\* entry (messages are as the branch left them) and a push to exactly the
\* registered connection otherwise (stated for runs with no Redis failure).
SendToAbsentIsNoEvent ==
    [][/\ \A s \in Sessions, r \in Users, t \in BOOLEAN :
             (redis_failures = 0 /\ RecvTyping(s, r, t))
             => /\ SendContract(s, r, [type |-> "typing",
                                       data |-> [sender_id |-> ws_user[s],
                                                 receiver_id |-> r,
                                                 is_typing |-> t]])
                /\ messages' = messages
       /\ \A s \in Sessions, m \in DOMAIN messages :
             (/\ redis_failures = 0
              /\ RecvReadReceipt(s, m)
              /\ messages[m].receiver_id = ws_user[s])
             => /\ SendContract(s, messages[m].sender_id,
                                [type |-> "read_receipt",
                                 data |-> [message_id |-> m,
                                           reader_id |-> ws_user[s]]])
                /\ messages' = [messages EXCEPT ![m].status = READ]]_vars

\* the messages of session s whose handler has not ended
Pending(s) == {m \in DOMAIN handled : handled[m].conn = s /\ handled[m].done = "no"}

\* C20: a session has at most one message whose handler has not ended, and it
\* is the latest message of that session; a session takes its next frame only
\* when no handler of an earlier frame of it is unfinished; and a message frame
\* is pushed for an existing message, or its status set to delivered, only
\* while its handler has not ended.
PerConnectionOrder ==
    /\ [](\A s \in Sessions :
            /\ Cardinality(Pending(s)) <= 1
            /\ \A m \in Pending(s), n \in DOMAIN handled :
                  handled[n].conn = s => n <= m)
    /\ [][\A s \in Sessions :
            received'[s] > received[s]
            => /\ Pending(s) = {}
               /\ received'[s] = received[s] + 1]_vars
    /\ [][\A m \in DOMAIN messages :
            (\/ Len(pushed') > Len(pushed)
                /\ pushed'[Len(pushed')].frame.type = "message"
                /\ pushed'[Len(pushed')].frame.data.id = m
             \/ messages'[m].status = DELIVERED /\ messages[m].status # DELIVERED)
            => handled[m].done = "no"]_vars

\* one session sent two messages; the handler of the first was suspended in
\* the push to a live receiver, and both handlers have ended
PerConnectionOrderWitness ==
    \E m, n \in DOMAIN handled :
        /\ m < n
        /\ handled[m].conn = handled[n].conn
        /\ handled[m].rcv = "sent"
        /\ handled[m].done = "ok"
        /\ handled[n].done = "ok"

\* session s runs the part of a direct-message handler that looks the
\* receiver's presence up: right at the frame when nothing is pushed to the
\* receiver, or when the push to the receiver has returned
LooksUpPresence(s) ==
    \/ pc[s] = "delivering" /\ pc'[s] = "recv"
    \/ /\ received'[s] > received[s]
       /\ Len(messages') > Len(messages)
       /\ messages'[Len(messages')].receiver_id # None
       /\ pc'[s] = "recv"
       /\ handled'[Len(messages')].rcv = "absent"

\* the message that handler is about
LookedUpFor(s) == IF pc[s] = "delivering" THEN cur[s].msg ELSE Len(messages')

\* C21: when the presence lookup of a direct-message handler fails, the
\* session of the sender stays Open, the handler ends normally, the stored
\* status is not raised to delivered, and the sender's registered live
\* connection is pushed the echo.
PresenceFailureDegrades ==
    [][\A s \in Sessions :
          (LooksUpPresence(s) /\ redis_failures' > redis_failures)
          => LET m == LookedUpFor(s) IN
               /\ ws_state'[s] = "Open"
               /\ handled'[m].done = "ok"
               /\ messages'[m].status # DELIVERED
               /\ LiveConn(ws_user[s]) # None
                  => /\ Len(pushed') = Len(pushed) + 1
                     /\ pushed'[Len(pushed')].conn = LiveConn(ws_user[s])
                     /\ pushed'[Len(pushed')].frame.type = "message"
                     /\ pushed'[Len(pushed')].frame.data.id = m]_vars

\* session s, the registered live handle of its user, handles a well-formed
\* frame or resumes a handler, in a run in which no Redis call has failed
HandlesFrame(s) ==
    /\ \/ received'[s] > received[s] /\ malformed' = malformed
       \/ pc[s] # "recv" /\ pc'[s] # pc[s]
    /\ LiveConn(ws_user[s]) = s
    /\ redis_failures' = 0

\* C23: a session that handles a well-formed frame stays Open and leaves the
\* registry as it is, whatever state the connections of the peers it pushes
\* to are in; and the handler of a direct message whose receiver's registered
\* socket refuses the push still ends normally.
PushFailureScoped ==
    [][\A s \in Sessions :
          HandlesFrame(s)
          => /\ ws_state'[s] = "Open"
             /\ active_connections' = active_connections
             /\ (/\ Len(messages') > Len(messages)
                 /\ handled'[Len(messages')].rcv = "raised")
                => handled'[Len(messages')].done = "ok"]_vars

\* the history requests the model issues
HistoryRequests == Users \X Users \X {0, 1} \X {1, DEFAULT_LIMIT}

\* C27: after user U fetched the history with peer V, every message from V to
\* U has status read, whatever skip and limit were.
HistoryMarksAllRead ==
    [][\A q \in HistoryRequests :
          get_chat_history(q[1], q[2], q[3], q[4])
          => \A i \in DOMAIN messages :
                (messages[i].sender_id = q[2] /\ messages[i].receiver_id = q[1])
                => messages'[i].status = READ]_vars

\* message i is between a and b, and among those messages, newest first, it
\* comes after the first skip and within the next limit
InFetchedPage(i, a, b, skip, limit) ==
    LET between(j) == \/ messages[j].sender_id = a /\ messages[j].receiver_id = b
                      \/ messages[j].sender_id = b /\ messages[j].receiver_id = a
        position == Cardinality({j \in DOMAIN messages : j >= i /\ between(j)})
    IN  between(i) /\ position > skip /\ position <= skip + limit

\* C27 as amended: after user U fetched the history with peer V, every message
\* addressed to U on the fetched page has status read, and every other message
\* is as it was.
HistoryMarksPageRead ==
    [][\A q \in HistoryRequests :
          get_chat_history(q[1], q[2], q[3], q[4])
          => /\ DOMAIN messages' = DOMAIN messages
             /\ \A i \in DOMAIN messages :
                   IF /\ InFetchedPage(i, q[1], q[2], q[3], q[4])
                      /\ messages[i].receiver_id = q[1]
                     THEN messages'[i] = [messages[i] EXCEPT !.status = READ]
                     ELSE messages'[i] = messages[i]]_vars

\* two messages of one user to another: a fetch marked one of them read and
\* left the other, which was not on its page, unread
HistoryMarksPageReadWitness ==
    \E i, j \in DOMAIN messages :
        /\ i # j
        /\ messages[i].sender_id = messages[j].sender_id
        /\ messages[i].receiver_id = messages[j].receiver_id
        /\ messages[i].sender_id # messages[i].receiver_id
        /\ messages[i].status = READ
        /\ messages[j].status # READ

\* the handler of a "message" frame of session s ends in a failed insert
InsertFails(s) ==
    /\ received'[s] > received[s]
    /\ db_failures' > db_failures

\* C22: when the insert of a message fails, the frame fails as a whole: the
\* sender's handler ends in the error path, nothing is pushed to the receiver,
\* to a group member or back to the sender, no row is added and no message
\* becomes delivered; so every message frame ever pushed carries the id of a
\* row of the messages table.
PersistenceFailureClaimsNoDelivery ==
    /\ [][\A s \in Sessions :
             InsertFails(s)
             => /\ pushed' = pushed
                /\ messages' = messages
                /\ handled' = handled
                /\ pc'[s] = "recv"
                /\ close_code'[s] = POLICY_VIOLATION]_vars
    /\ [](\A k \in DOMAIN pushed :
             pushed[k].frame.type = "message"
             => /\ pushed[k].frame.data.id \in DOMAIN messages
                /\ messages[pushed[k].frame.data.id].content
                     = pushed[k].frame.data.content)

\* an insert failed on a frame of a session while the other user was
\* registered with an open socket: that session is closed, nothing was pushed
PersistenceFailureWitness ==
    \E s \in Sessions, u \in Users :
        /\ db_failures = 1
        /\ redis_failures = 0
        /\ received[s] = 1
        /\ malformed[s] = 0
        /\ close_code[s] = POLICY_VIOLATION
        /\ u # ws_user[s]
        /\ SendResult(u) = "sent"
        /\ messages = << >>
        /\ pushed = << >>

\* C25: every group of the groups table has at least one admin member, in
\* every state from the one in which its row is committed.
EveryGroupHasAdmin ==
    \A g \in groups : admin_count(group_members, g) >= 1

\* the removal requests the model issues: caller, group, user of the target row
RemoveRequests == Users \X Groups \X Users

\* C26: a removal whose target row is the sole admin of the group is answered
\* with an error and leaves the roster as it is; a removal by the target user
\* or by an admin, of a regular member or of an admin beside whom another
\* admin exists, is answered 204 and removes exactly the target row.
LastAdminProtected ==
    [][\A q \in RemoveRequests :
          LET caller == q[1]
              g      == q[2]
              rows   == {r \in group_members :
                            r.group_id = g /\ r.user_id = q[3]}
              admins == {r \in group_members : r.group_id = g /\ r.is_admin}
          IN  (remove_group_member(caller, g, q[3]) /\ g \in groups)
              => \A member \in rows :
                    /\ admins = {member}
                       => /\ http_status' >= 400
                          /\ group_members' = group_members
                    /\ (/\ admins # {member}
                        /\ \/ caller = member.user_id
                           \/ \E a \in admins : a.user_id = caller)
                       => /\ http_status' = HTTP_204_NO_CONTENT
                          /\ group_members' = group_members \ {member}]_vars

\* the sole admin of a group asked to be removed and was refused, beside a
\* regular member
LastAdminProtectedWitness ==
    /\ http_status = HTTP_400_BAD_REQUEST
    /\ \E g \in groups :
          /\ admin_count(group_members, g) = 1
          /\ \E r \in group_members : r.group_id = g /\ ~r.is_admin

\* the registry entry and the presence of user b are what they were
EntryUntouched(b) ==
    /\ (b \in DOMAIN active_connections') = (b \in DOMAIN active_connections)
    /\ b \in DOMAIN active_connections => active_connections'[b] = active_connections[b]
    /\ (b \in online_users') = (b \in online_users)

\* C28: a connect or a disconnect of a session of user A leaves the registry
\* entry and the presence of every other user as they were, and takes effect
\* for A whatever the other users' sessions did in between: after the connect
\* A's entry is the new socket and A is online, after the disconnect A has no
\* entry and is offline (the presence part when the Redis call succeeded).
ConnectDisconnectIsolated ==
    [][\A s \in Sessions :
          /\ (connect(s) \/ disconnect(s))
             => \A b \in Users \ {ws_user[s]} : EntryUntouched(b)
          /\ connect(s)
             => /\ ws_user[s] \in DOMAIN active_connections'
                /\ active_connections'[ws_user[s]] = s
                /\ redis_failures' = redis_failures => ws_user[s] \in online_users'
          /\ disconnect(s)
             => /\ ws_user[s] \notin DOMAIN active_connections'
                /\ redis_failures' = redis_failures
                     => ws_user[s] \notin online_users']_vars

\* one user has connected and disconnected while the other user stays
\* registered with its own open socket and online
ConnectDisconnectIsolatedWitness ==
    \E s, t \in Sessions :
        /\ ws_user[s] # ws_user[t]
        /\ ws_state[s] = "Closed"
        /\ close_code[s] = None
        /\ ws_user[s] \notin DOMAIN active_connections
        /\ ws_user[s] \notin online_users
        /\ ws_user[t] \in DOMAIN active_connections
        /\ active_connections[ws_user[t]] = t
        /\ Live(t)
        /\ ws_user[t] \in online_users

\* C24: a sender suspended in the push of a frame to the connection of another
\* user eventually finishes the frame and is back at its receive loop, also when
\* that connection never accepts the frame.
StalledPeerDoesNotBlock ==
    \A s \in Sessions :
        (pc[s] = "delivering" /\ handled[cur[s].msg].rcv_conn # s)
            ~> (pc[s] = "recv")

\* no row of the users table holds a contact of the payload
FreshContacts(d) ==
    \A i \in DOMAIN users_table :
        /\ d.email # NoContact => users_table[i].email # d.email
        /\ d.phone_number # NoContact => users_table[i].phone_number # d.phone_number

\* C29: a register request with fresh contacts persists the user and answers
\* 201 with that user, also when the dispatch of the passcode fails; and when
\* the passcode task later fails to generate, store or send the passcode, the
\* user stays persisted and the response stays the one that was given.
OtpNeverBlocksRegistration ==
    /\ [][\A d \in Registrations, dispatch \in DispatchOutcomes :
             (register(d, dispatch) /\ FreshContacts(d))
             => /\ Len(users_table') = Len(users_table) + 1
                /\ users_table'[Len(users_table')].email = d.email
                /\ users_table'[Len(users_table')].phone_number = d.phone_number
                /\ http_status' = HTTP_201_CREATED
                /\ http_body' = users_table'[Len(users_table')].id]_vars
    /\ [][otp_status' # otp_status
             => /\ users_table' = users_table
                /\ http_status' = http_status
                /\ http_body' = http_body]_vars
    /\ [](\A u \in 1..MaxAccounts :
             otp_status[u] # "none" => u \in DOMAIN users_table)

\* a user was registered and answered 201 although the dispatch of its
\* passcode failed, and the passcode task of another user ended in an error
OtpNeverBlocksRegistrationWitness ==
    \E u, v \in DOMAIN users_table :
        /\ otp_status[u] = "error"
        /\ v # u
        /\ otp_status[v] = "none"
        /\ \A t \in background_tasks : t.user_id # v
        /\ http_status = HTTP_201_CREATED
        /\ http_body = v

\* the frames a step hands to send_json
NewFrames == {k \in DOMAIN pushed' : k > Len(pushed)}

\* C30: a message frame of a direct message is pushed only to a connection of
\* its receiver or of the user its sending connection authenticated as; and
\* every message frame carries as sender_id, every typing frame as sender_id
\* and every read_receipt frame as reader_id, the user the connection that
\* sent the inbound frame authenticated as, whatever identity the payload
\* names.
DirectConfidentialUnspoofable ==
    /\ [](\A k \in DOMAIN pushed :
             LET f == pushed[k].frame IN
             f.type = "message"
             => /\ f.data.id \in DOMAIN handled
                /\ f.data.sender_id = ws_user[handled[f.data.id].conn]
                /\ messages[f.data.id].sender_id = f.data.sender_id
                /\ f.data.receiver_id # None
                   => ws_user[pushed[k].conn]
                        \in {f.data.receiver_id, f.data.sender_id})
    /\ [][\A s \in Sessions :
             received'[s] > received[s]
             => \A k \in NewFrames :
                   LET f == pushed'[k].frame IN
                   /\ f.type \in {"message", "typing"}
                      => f.data.sender_id = ws_user[s]
                   /\ f.type = "read_receipt" => f.data.reader_id = ws_user[s]]_vars

\* a direct message between two users has reached a connection of its receiver
\* and has been echoed to its sender, and a typing or read_receipt frame has
\* been pushed as well
DirectConfidentialUnspoofableWitness ==
    \E i, j, k \in DOMAIN pushed :
        LET f == pushed[i].frame IN
        /\ f.type = "message"
        /\ f.data.receiver_id # None
        /\ f.data.receiver_id # f.data.sender_id
        /\ ws_user[pushed[i].conn] = f.data.receiver_id
        /\ pushed[j].frame = f
        /\ ws_user[pushed[j].conn] = f.data.sender_id
        /\ pushed[k].frame.type \in {"typing", "read_receipt"}

\* C31: a persisted group message whose group had members when its frame was
\* handled was sent by one of those members; so no frame of a non-member's
\* message is pushed to a member of the group.
GroupSenderIsMember ==
    \A m \in DOMAIN messages :
        (/\ messages[m].receiver_id = None
         /\ messages[m].group_id # None
         /\ handled[m].roster # {})
        => messages[m].sender_id \in handled[m].roster

\* session s handles a message frame that names no receiver and a group id
\* the groups table does not hold, in a run without Redis failures
UnknownGroupFrame(s, g) ==
    /\ received'[s] > received[s]
    /\ Len(messages') = Len(messages) + 1
    /\ messages'[Len(messages')].receiver_id = None
    /\ messages'[Len(messages')].group_id = g
    /\ g \notin groups
    /\ redis_failures' = 0

\* C32: a message frame addressed to a group id that does not exist is
\* persisted with status sent, pushes exactly one frame, the echo, to a
\* connection of the sender, and leaves the sender's connection Open.
UnknownGroupHandled ==
    [][\A s \in Sessions, g \in Groups :
          UnknownGroupFrame(s, g)
          => /\ messages'[Len(messages')].status = SENT
             /\ messages'[Len(messages')].sender_id = ws_user[s]
             /\ Len(pushed') = Len(pushed) + 1
             /\ pushed'[Len(pushed')].frame.type = "message"
             /\ pushed'[Len(pushed')].frame.data.id = Len(messages')
             /\ ws_user[pushed'[Len(pushed')].conn] = ws_user[s]
             /\ ws_state'[s] = "Open"]_vars

\* the add requests the model issues: caller, group, user to add, role
AddRequests == Users \X Groups \X (Users \cup {UnknownUser}) \X BOOLEAN

\* C33: no group holds two membership rows of one user, and an add of a user
\* who already has a row in the group is answered with an error and leaves the
\* roster as it is.
MemberAtMostOnce ==
    /\ [](\A g \in Groups, u \in Users :
             Cardinality({r \in group_members :
                             r.group_id = g /\ r.user_id = u}) <= 1)
    /\ [][\A q \in AddRequests :
             (/\ add_group_member(q[1], q[2], q[3], q[4])
              /\ \E r \in group_members : r.group_id = q[2] /\ r.user_id = q[3])
             => /\ http_status' >= 400
                /\ group_members' = group_members]_vars

\* an admin asked to add a user who already was a member of the group, in the
\* other role, and was refused: the group has its two members, one row each
MemberAtMostOnceWitness ==
    /\ http_status = HTTP_400_BAD_REQUEST
    /\ \E g \in groups :
          /\ admin_count(group_members, g) = 2
          /\ Cardinality({r \in group_members : r.group_id = g}) = 2

\* C34: an add changes the roster only when its caller is an admin of the
\* group, a removal only when its caller is an admin of the group or the user
\* of the target row; a request answered with an error leaves the roster as it
\* is.
RosterChangesAuthorised ==
    /\ [][\A q \in AddRequests :
             add_group_member(q[1], q[2], q[3], q[4])
             => /\ group_members' # group_members
                   => /\ \E r \in group_members :
                            r.group_id = q[2] /\ r.user_id = q[1] /\ r.is_admin
                      /\ http_status' = HTTP_200_OK
                /\ http_status' >= 400 => group_members' = group_members]_vars
    /\ [][\A q \in RemoveRequests :
             remove_group_member(q[1], q[2], q[3])
             => /\ group_members' # group_members
                   => /\ \/ q[1] = q[3]
                         \/ \E r \in group_members :
                               r.group_id = q[2] /\ r.user_id = q[1] /\ r.is_admin
                      /\ http_status' = HTTP_204_NO_CONTENT
                /\ http_status' >= 400 => group_members' = group_members]_vars

\* a caller who is no admin of an existing group was refused: the group still
\* has its admin and nobody else
RosterChangesAuthorisedWitness ==
    /\ http_status = HTTP_403_FORBIDDEN
    /\ \E g \in groups :
          /\ admin_count(group_members, g) = 1
          /\ Cardinality({r \in group_members : r.group_id = g}) = 1

\* ------------------------------------------------------------------- C35
VerifyRequests == Contacts \X Codes \X RedisFaults

ResetRequests == Contacts \X Codes \X Passwords \X RedisFaults

\* a request with `contact` and `otp` wrote the row of its user
OtpUsed(contact) ==
    LET user == FindUser(users_table, contact, is_email(contact)) IN
    /\ user # None
    /\ users_table'[user] # users_table[user]

\* what a verify_otp / reset_password request of `contact` with `otp` may do
OtpRule(contact, otp) ==
    LET user == FindUser(users_table, contact, is_email(contact)) IN
    /\ users_table' # users_table =>
          /\ OtpUsed(contact)
          /\ get_otp(otps, user) = otp
          /\ \A other \in DOMAIN users_table \ {user} :
                users_table'[other] = users_table[other]
    /\ OtpUsed(contact) => get_otp(otps', user) = NoOtp

\* C35: a one-time passcode is required and single-use: verify_otp marks a
\* user verified and reset_password changes the password only when the
\* submitted passcode equals the one stored for that user, a wrong or missing
\* passcode leaves every user unchanged, and a request that used the passcode
\* leaves none stored, so that the same passcode is rejected until a new one
\* is issued.
OtpSingleUseRequired ==
    [][/\ \A q \in VerifyRequests :
             verify_otp(q[1], q[2], q[3]) => OtpRule(q[1], q[2])
       /\ \A q \in ResetRequests :
             reset_password(q[1], q[2], q[3], q[4]) => OtpRule(q[1], q[2])]_vars

\* ------------------------------------------------------------------- C36
\* C36: a history fetch by user U with peer V changes only the status of
\* messages whose receiver is U and whose sender is V: every other message,
\* every message with a group id, the registry and the presence set are as
\* they were, and no frame (so no read_receipt) is pushed to any connection.
HistoryFetchFrame ==
    [][\A q \in HistoryRequests :
          get_chat_history(q[1], q[2], q[3], q[4])
          => /\ DOMAIN messages' = DOMAIN messages
             /\ \A i \in DOMAIN messages :
                   /\ [messages'[i] EXCEPT !.status = messages[i].status]
                         = messages[i]
                   /\ \/ messages[i].receiver_id # q[1]
                      \/ messages[i].sender_id # q[2]
                      \/ messages[i].group_id # None
                      => messages'[i] = messages[i]
             /\ UNCHANGED <<active_connections, online_users, pushed>>]_vars

====
